---- MODULE Spec2Model ----
(***************************************************************************)
(* Backup-run lifecycle of go-rsync-backup: Backup.Run and the steps it    *)
(* calls, the signal-handler goroutine, the lock directory, the snapshot   *)
(* directories under the destination and the "latest" symlink.             *)
(*                                                                         *)
(* Every run is one process; a process slot r holds the run that was       *)
(* started in it last.  The main goroutine of a run is at pc[r]; the       *)
(* signal goroutine of a run has either not acted (sig[r] = "none") or has *)
(* executed removeLock and not yet os.Exit.  Each action is one step of    *)
(* Backup.Run (one call that touches the filesystem or a child process),   *)
(* followed, when the step fails, by the deferred calls of Run and the     *)
(* os.Exit(1) of main.                                                     *)
(***************************************************************************)
EXTENDS Integers, Sequences, FiniteSets, TLC

\* ------------------------------------------------------------------ bounds
\* Number of runs started over a behaviour.
MaxStarts == 3
\* Number of process slots: the runs that are alive at the same time.
NumProcs == 2

Runs == 1..NumProcs
\* The timezone abbreviations time.Now() formats as on the host: the one of
\* daylight-saving time and the one of standard time, in lexical order (as
\* "CEST" < "CET").
Zones == {1, 2}
Times == 1..MaxStarts

\* A snapshot name is the timestamp "MST_2006-01-02_15.04.05": the timezone
\* abbreviation first, then the zero-padded date and time.
Names == Zones \X Times

\* No entry (no lock directory, no symlink, timestamp not yet taken).  A run
\* is identified by the second at which it started.
NoRun == 0
\* A lock directory left behind by a run that was killed without cleanup.
StaleLock == -1
NoName == <<0, 0>>
NoUsage == -1

VARIABLES
    configFile,  \* the configuration document at the -config path
    config,      \* the Config main got from LoadConfig
    pc,          \* pc[r]: position of the main goroutine of run r in Backup.Run
    sig,         \* sig[r]: "none", or when the signal goroutine ran removeLock:
                 \* "early" (before the run created the lock) or "held"
    dryRun,      \* dryRun[r]: b.config.DryRun of run r (file value or -dry-run flag)
    timestamp,   \* timestamp[r]: b.timestamp of run r
    err,         \* err[r]: the error Backup.Run returned ("" while none)
    diskUsage,   \* diskUsage[r]: the percentage checkDiskSpace parsed (NoUsage: none)
    clock,       \* seconds elapsed: the number of runs started so far
    lock,        \* which run created the existing lock directory (NoRun: none)
    destDir,     \* the destination directory exists
    snapInc,     \* snapInc[n]: state of <destination>/<n>_INCOMPLETE
    snapFinal,   \* names n for which <destination>/<n> is a directory
    latest,      \* target of the symlink <destination>/latest (NoName: absent)
    pruneLog,    \* the log of the latest cleanupOldBackups: the names under
                 \* "Removing old backup" and those under "failed to remove"
    linkDest,    \* linkDest[r]: the snapshot named by --link-dest (NoName: no flag)
    exits,       \* every process that has exited so far was started without
                 \* dry-run and exited with status 0
    input,       \* the arguments of a function of the program called on its own
    output,      \* the value that call returned (NoCall: not called)
    capture,     \* the child process of runRsync, its two pipes and the two
                 \* io.Copy goroutines (NoCapture: no child)
    logs         \* the log files and the handle b.logFile (NoLogs: not set up)

vars == <<configFile, config, pc, sig, dryRun, timestamp, err, diskUsage, clock, lock,
          destDir, snapInc, snapFinal, latest, pruneLog, linkDest, exits, input, output, capture, logs>>

\* What a step of Backup.Run other than the first leaves alone in the process.
runVars == <<configFile, config, dryRun, timestamp, clock, input, output, capture, logs>>
fsVars == <<destDir, snapInc, snapFinal, latest, pruneLog>>

\* ------------------------------------------------------------ configuration
\* Largest retention count the configuration file sets in "keep".
MaxKeep == 2
\* DefaultConfig.Keep and DefaultConfig.CleanupAtPercent.
DefaultKeep == 30
DefaultCleanupAtPercent == 95
\* The values LoadConfig puts in place of a Keep below 1 and of a
\* CleanupAtPercent out of range.
LoadKeep == 7
LoadCleanupAtPercent == 90
MinCleanupAtPercent == 50
MaxCleanupAtPercent == 95

\* A path is the sequence of its characters.  The empty string.
EmptyPath == <<>>
LocalSource == <<"/", "s">>
LocalDestination == <<"/", "d">>
RemoteSource == <<"u", "@", "h", ":", "/", "s">>
RemoteDestination == <<"u", "@", "h", ":", "/", "d">>

\* strings.Contains(path, ch) for a one-character ch.
Contains(path, ch) == \E i \in DOMAIN path : path[i] = ch

\* Backup.isSSHPath.
isSSHPath(path) == Contains(path, "@") /\ Contains(path, ":")

\* DefaultConfig, the fields the run reads.
DefaultConfig ==
    [Source |-> <<"/", "V", "e">>, Destination |-> <<"/", "V", "b">>,
     Keep |-> DefaultKeep, CleanupAtPercent |-> DefaultCleanupAtPercent]

\* The Config value before LoadConfig has returned: Go's zero value.
ZeroConfig == [Source |-> EmptyPath, Destination |-> EmptyPath, Keep |-> 0,
               CleanupAtPercent |-> 0]

\* The keys of the configuration document the run depends on.  A document is
\* a function from the keys it gives to their values.
DocKeys == {"source", "destination", "keep", "cleanup_at_percent"}

\* No file at the -config path (os.ReadFile fails), and a file with a document.
NoFile == [present |-> FALSE, doc |-> [k \in {} |-> 0]]
File(doc) == [present |-> TRUE, doc |-> doc]

\* The document of the README's example, with a local source and destination.
BaseDoc == [source |-> LocalSource, destination |-> LocalDestination, keep |-> 1,
            cleanup_at_percent |-> DefaultCleanupAtPercent]

\* The document doc without the key.
Omit(doc, key) == [k \in (DOMAIN doc) \ {key} |-> doc[k]]

\* Documents that give every key a value validateConfig accepts.
ValidDocs == {[BaseDoc EXCEPT !.keep = k] : k \in 1..MaxKeep}

\* Documents with a key left out, with a retention count below 1, with a
\* threshold below 50 or above 95, with an empty or a remote path.
OtherDocs ==
    {Omit(BaseDoc, key) : key \in DocKeys}
      \cup {[BaseDoc EXCEPT !.keep = 0],
            [BaseDoc EXCEPT !.cleanup_at_percent = MinCleanupAtPercent - 1],
            [BaseDoc EXCEPT !.cleanup_at_percent = MaxCleanupAtPercent + 1],
            [BaseDoc EXCEPT !.source = EmptyPath],
            [BaseDoc EXCEPT !.destination = EmptyPath],
            [BaseDoc EXCEPT !.source = RemoteSource],
            [BaseDoc EXCEPT !.destination = RemoteDestination]}

ConfigFiles == {File(doc) : doc \in ValidDocs}
AnyConfigFiles == {NoFile} \cup {File(doc) : doc \in ValidDocs \cup OtherDocs}

\* json.Unmarshal into a ConfigFile: a key the document leaves out keeps the
\* zero value of its field.
Unmarshal(doc) ==
    [source |-> IF "source" \in DOMAIN doc THEN doc.source ELSE EmptyPath,
     destination |-> IF "destination" \in DOMAIN doc THEN doc.destination ELSE EmptyPath,
     keep |-> IF "keep" \in DOMAIN doc THEN doc.keep ELSE 0,
     cleanup_at_percent |->
         IF "cleanup_at_percent" \in DOMAIN doc THEN doc.cleanup_at_percent ELSE 0]

\* LoadConfig: the Config and the error it returns, "" for nil.
LoadConfig(file) ==
    LET cf == Unmarshal(file.doc)
        loaded == IF file.present
                     THEN [Source |-> cf.source, Destination |-> cf.destination,
                           Keep |-> cf.keep, CleanupAtPercent |-> cf.cleanup_at_percent]
                     ELSE DefaultConfig
        keep == IF loaded.Keep < 1 THEN LoadKeep ELSE loaded.Keep
        pct == IF loaded.CleanupAtPercent < MinCleanupAtPercent
                    \/ loaded.CleanupAtPercent > MaxCleanupAtPercent
                  THEN LoadCleanupAtPercent ELSE loaded.CleanupAtPercent
    IN  IF loaded.Source = EmptyPath \/ loaded.Destination = EmptyPath
           THEN [config |-> loaded, err |-> "ConfigLoadError"]
           ELSE [config |-> [loaded EXCEPT !.Keep = keep, !.CleanupAtPercent = pct],
                 err |-> ""]

\* Usage percentages the df probe reports: below, at and above the threshold.
Usages(c) == (c.CleanupAtPercent - 1)..(c.CleanupAtPercent + 1)

\* Backup.validateConfig: the error it returns, "" for nil.
validateConfig(c) ==
    IF c.Source = EmptyPath THEN "ConfigInvalid"
    ELSE IF c.Destination = EmptyPath THEN "ConfigInvalid"
    ELSE IF c.Keep < 1 THEN "ConfigInvalid"
    ELSE IF c.CleanupAtPercent < MinCleanupAtPercent
            \/ c.CleanupAtPercent > MaxCleanupAtPercent THEN "ConfigInvalid"
    ELSE ""

\* The comparison as "usage > threshold".
diskOverThresholdStrict(usage, c) == usage > c.CleanupAtPercent

\* The comparison of checkDiskSpace: usage >= b.config.CleanupAtPercent.
diskOverThreshold(usage, c) == usage >= c.CleanupAtPercent

\* ------------------------------------------------------------------- names
\* Go's string comparison of two timestamps: the timezone abbreviation is the
\* prefix, so it decides first; the date and time decide between equal zones.
LexLess(a, b) == a[1] < b[1] \/ (a[1] = b[1] /\ a[2] < b[2])

\* os.ReadDir returns the entries sorted by filename.
ReadDirSorted[S \in SUBSET Names] ==
    IF S = {} THEN <<>>
    ELSE LET m == CHOOSE x \in S : \A y \in S \ {x} : LexLess(x, y)
         IN  <<m>> \o ReadDirSorted[S \ {m}]

\* The candidate filter of cleanupOldBackups: directories that are not named
\* "latest" and do not end in "_INCOMPLETE".  The symlink is no directory.
backupCandidates(final) == ReadDirSorted[final]

\* The comparison as "backups[i] < backups[j]": newest first.
sortOutOfOrderReversed(a, b) == LexLess(a, b)

\* The comparison of the sort in cleanupOldBackups: backups[i] > backups[j].
sortOutOfOrder(a, b) == LexLess(b, a)

Swap(s, i, j) == [s EXCEPT ![i] = s[j], ![j] = s[i]]

\* The nested loops of cleanupOldBackups, "Sort backups (oldest first)":
\* functions of the slice after the swaps made so far and the loop indices.
SortInner[s \in Seq(Names), i \in Nat, j \in Nat] ==
    IF j > Len(s) THEN s
    ELSE SortInner[IF sortOutOfOrder(s[i], s[j]) THEN Swap(s, i, j) ELSE s, i, j + 1]

SortOuter[s \in Seq(Names), i \in Nat] ==
    IF i > Len(s) - 1 THEN s
    ELSE SortOuter[SortInner[s, i, i + 1], i + 1]

sortBackups(s) == SortOuter[s, 1]

\* toRemove := len(backups) - b.config.Keep
toRemoveCount(n, keep) == n - keep

\* The names cleanupOldBackups calls os.RemoveAll on, given the finalized
\* snapshot directories and Keep.
pruneVictims(final, keep) ==
    LET backups == backupCandidates(final)
    IN  IF keep <= 0 \/ Len(backups) <= keep THEN {}
        ELSE LET sorted == sortBackups(backups)
             IN  {sorted[i] : i \in 1..toRemoveCount(Len(backups), keep)}

\* ------------------------------------------------------------------- state
\* No function has been called on its own.
NoCall == <<>>
NoCapture == <<>>
NoLogs == <<>>

\* The state before the first process starts, the configuration document
\* being one of files.
InitState(files) ==
    /\ configFile \in files
    /\ config = ZeroConfig
    /\ pc = [r \in Runs |-> "NotStarted"]
    /\ sig = [r \in Runs |-> "none"]
    /\ dryRun = [r \in Runs |-> FALSE]
    /\ timestamp = [r \in Runs |-> NoName]
    /\ err = [r \in Runs |-> ""]
    /\ diskUsage = [r \in Runs |-> NoUsage]
    /\ clock = 0
    /\ lock \in {NoRun, StaleLock}
    /\ destDir = FALSE
    /\ snapInc = [n \in Names |-> "absent"]
    /\ snapFinal = {}
    /\ latest = NoName
    /\ pruneLog = [removing |-> {}, failed |-> {}]
    /\ linkDest = [r \in Runs |-> NoName]
    /\ exits = TRUE

Init ==
    /\ InitState(ConfigFiles)
    /\ input = NoCall /\ output = NoCall /\ capture = NoCapture /\ logs = NoLogs

Terminal == {"Completed", "Failed", "Interrupted"}
Alive(r) == pc[r] \notin Terminal \cup {"NotStarted"}

\* The run in slot r: the second at which it was started.
RunId(r) == timestamp[r][2]

\* The steps of Backup.Run between createLock and the deferred removeLock.
LockedSteps == {"Locked", "LoggingOpen", "BinaryResolved", "Transferring",
                "Transferred", "Verified", "Finalized", "Published", "Pruned"}

\* The process exit code: main returns 0 after Run returned nil; main and
\* cleanup call os.Exit(1) otherwise.
ExitCode(r) == IF pc[r] = "Completed" THEN 0 ELSE 1

\* Backup.removeLock: os.RemoveAll(b.config.LockFile), whoever created it.
removeLock(l) == NoRun

\* The defer statement placed before createLock: every return removes.
deferredRemoveLockAlways(step, l) == removeLock(l)

\* The defer statement placed after setupLogging: its failure leaves the lock.
deferredRemoveLockAfterLogging(step, l) ==
    IF step \in LockedSteps \ {"Locked"} THEN removeLock(l) ELSE l

\* The deferred calls of Backup.Run when it returns: removeLock once
\* createLock has succeeded (the defer statement follows it), none before.
deferredRemoveLock(step, l) == IF step \in LockedSteps THEN removeLock(l) ELSE l

\* A failing step tried again instead of returned from.
ReturnErrRetry(r, e) ==
    /\ err' = [err EXCEPT ![r] = e]
    /\ UNCHANGED <<pc, lock, exits, sig>>

\* Backup.Run returns the error e from the step at pc[r]; its deferred calls
\* run and main calls os.Exit(1), which ends the signal goroutine too.
ReturnErr(r, e) ==
    /\ pc' = [pc EXCEPT ![r] = "Failed"]
    /\ err' = [err EXCEPT ![r] = e]
    /\ lock' = deferredRemoveLock(pc[r], lock)
    /\ exits' = FALSE
    /\ UNCHANGED sig

\* Backup.Run moves on to the next step.
Advance(r, next) ==
    /\ pc' = [pc EXCEPT ![r] = next]
    /\ UNCHANGED <<err, sig, exits>>

\* ----------------------------------------------------------------- actions
\* The error main stops at before the first step of Backup.Run: the one of
\* LoadConfig, else the one of validateConfig on the Config it returned.
mainConfigErr(file) ==
    IF LoadConfig(file).err # "" THEN LoadConfig(file).err
    ELSE validateConfig(LoadConfig(file).config)

\* main: the process starts at the next second, loads the configuration,
\* takes the -dry-run flag, NewBackup formats time.Now() in the zone in
\* effect, and Backup.Run validates the configuration and installs the
\* signal handler.
NewBackup(r) ==
    /\ ~Alive(r)
    /\ clock < MaxStarts
    /\ config' = LoadConfig(configFile).config
    /\ \E z \in Zones, d \in BOOLEAN :
          /\ timestamp' = [timestamp EXCEPT ![r] = <<z, clock + 1>>]
          /\ dryRun' = [dryRun EXCEPT ![r] = d]
    /\ clock' = clock + 1
    /\ linkDest' = [linkDest EXCEPT ![r] = NoName]
    /\ diskUsage' = [diskUsage EXCEPT ![r] = NoUsage]
    /\ sig' = [sig EXCEPT ![r] = "none"]
    /\ err' = [err EXCEPT ![r] = mainConfigErr(configFile)]
    /\ pc' = [pc EXCEPT ![r] = IF mainConfigErr(configFile) = "" THEN "Validated"
                                                                ELSE "Failed"]
    /\ exits' = (exits /\ mainConfigErr(configFile) = "")
    /\ UNCHANGED <<configFile, lock, fsVars, input, output, capture, logs>>

\* Backup.validatePaths: os.MkdirAll of the destination, then the source and
\* mount probes.  os.Stat of a remote source finds no such local path.
ValidatePaths(r) ==
    /\ pc[r] = "Validated"
    /\ \/ /\ ~isSSHPath(config.Source)
          /\ Advance(r, "PathsChecked")
          /\ destDir' = TRUE
          /\ UNCHANGED lock
       \/ /\ ~destDir
          /\ ReturnErr(r, "DestinationCreateError")
          /\ UNCHANGED destDir
       \/ /\ \E e \in {"SourceMissing", "PathNotMounted"} : ReturnErr(r, e)
          /\ destDir' = TRUE
    /\ UNCHANGED <<runVars, diskUsage, linkDest, snapInc, snapFinal, latest, pruneLog>>

\* Backup.checkDiskSpace: nothing for a remote destination; for a local one
\* the df probe fails, or its output does not parse, or it reports a usage
\* percentage.
CheckDiskSpace(r) ==
    /\ pc[r] = "PathsChecked"
    /\ \/ /\ isSSHPath(config.Destination)
          /\ Advance(r, "SpaceChecked")
          /\ UNCHANGED <<lock, diskUsage>>
       \/ /\ ~isSSHPath(config.Destination)
          /\ ReturnErr(r, "DiskCheckParseError")
          /\ UNCHANGED diskUsage
       \/ \E usage \in Usages(config) :
            /\ ~isSSHPath(config.Destination)
            /\ diskUsage' = [diskUsage EXCEPT ![r] = usage]
            /\ IF diskOverThreshold(usage, config)
                  THEN ReturnErr(r, "DiskThresholdExceeded")
                  ELSE Advance(r, "SpaceChecked") /\ UNCHANGED lock
    /\ UNCHANGED <<runVars, linkDest, fsVars>>

\* Backup.createLock: os.Mkdir of the lock directory.
CreateLock(r) ==
    /\ pc[r] = "SpaceChecked"
    /\ \/ /\ lock = NoRun
          /\ Advance(r, "Locked")
          /\ lock' = RunId(r)
       \/ /\ lock # NoRun
          /\ ReturnErr(r, "AlreadyRunning")
       \/ /\ lock = NoRun
          /\ ReturnErr(r, "LockIOError")
    /\ UNCHANGED <<runVars, diskUsage, linkDest, fsVars>>

\* Backup.setupLogging: the log directory and file are created and opened.
SetupLogging(r) ==
    /\ pc[r] = "Locked"
    /\ \/ Advance(r, "LoggingOpen") /\ UNCHANGED lock
       \/ ReturnErr(r, "LogOpenError")
    /\ UNCHANGED <<runVars, diskUsage, linkDest, fsVars>>

\* Backup.findRsync: a binary is selected, or none exists, or the system
\* binary reports a version that is too old.
FindRsync(r) ==
    /\ pc[r] = "LoggingOpen"
    /\ \/ Advance(r, "BinaryResolved") /\ UNCHANGED lock
       \/ \E e \in {"BinaryNotFound", "IncompatibleBinary"} : ReturnErr(r, e)
    /\ UNCHANGED <<runVars, diskUsage, linkDest, fsVars>>

\* The link-dest test never passing: no --link-dest flag.
linkDestOfNone(target, final) == NoName

\* The link-dest test without os.Stat: the symlink target as it is read.
linkDestOfNoStat(target, final) == target

\* Backup.getLastBackup and the link-dest test of runRsync: the base name of
\* the symlink target, used when <destination>/<name> exists.
linkDestOf(target, final) ==
    IF target # NoName /\ target \in final THEN target ELSE NoName

\* Backup.runRsync up to cmd.Start: the pointer is read, the argument vector
\* is assembled and the child process is started.
RunRsyncStart(r) ==
    /\ pc[r] = "BinaryResolved"
    /\ Advance(r, "Transferring")
    /\ linkDest' = [linkDest EXCEPT ![r] = linkDestOf(latest, snapFinal)]
    /\ UNCHANGED <<runVars, diskUsage, lock, fsVars>>

\* The child process, without --dry-run, creates <timestamp>_INCOMPLETE and
\* then fills it: on this host for a local destination (on the remote host
\* for a remote one).
RsyncWrites(r) ==
    /\ pc[r] = "Transferring"
    /\ ~dryRun[r]
    /\ ~isSSHPath(config.Destination)
    /\ snapInc[timestamp[r]] # "full"
    /\ snapInc' = [snapInc EXCEPT ![timestamp[r]] =
                      IF @ = "absent" THEN "empty" ELSE "full"]
    /\ UNCHANGED <<runVars, pc, sig, err, diskUsage, linkDest, lock, destDir, snapFinal,
                   latest, pruneLog, exits>>

\* cmd.Wait returns: exit status 0, or an error for any other status.
RunRsyncWait(r) ==
    /\ pc[r] = "Transferring"
    /\ \/ Advance(r, "Transferred") /\ UNCHANGED lock
       \/ ReturnErr(r, "ProcessExecutionError")
    /\ UNCHANGED <<runVars, diskUsage, linkDest, fsVars>>

\* verifyBackup without the test len(entries) == 0.
verifyBackupNoEmptyCheck(dry, dirState) ==
    IF dry THEN ""
    ELSE IF dirState = "absent" THEN "SnapshotMissing"
    ELSE ""

\* Backup.verifyBackup: the error it returns, "" for nil.
verifyBackup(dry, dirState) ==
    IF dry THEN ""
    ELSE IF dirState = "absent" THEN "SnapshotMissing"
    ELSE IF dirState = "empty" THEN "SnapshotEmpty"
    ELSE ""

VerifyBackup(r) ==
    /\ pc[r] = "Transferred"
    /\ LET e == verifyBackup(dryRun[r], snapInc[timestamp[r]])
       IN  IF e = "" THEN Advance(r, "Verified") /\ UNCHANGED lock
                     ELSE ReturnErr(r, e)
    /\ UNCHANGED <<runVars, diskUsage, linkDest, fsVars>>

\* finalizeBackup with the error of os.Rename logged and not returned.
finalizeBackupRenameWarning(dry, renameOk) == ""

\* Backup.finalizeBackup: the error it returns, "" for nil.
finalizeBackup(dry, renameOk) ==
    IF dry THEN ""
    ELSE IF renameOk THEN ""
    ELSE "FinalizeRenameError"

\* Backup.finalizeBackup: nothing in a dry run, else os.Rename of the
\* _INCOMPLETE directory to the timestamp, which succeeds or fails.
FinalizeBackup(r) ==
    /\ pc[r] = "Verified"
    /\ \E renameOk \in BOOLEAN :
          /\ renameOk => (~dryRun[r] /\ snapInc[timestamp[r]] # "absent")
          /\ IF renameOk
                THEN /\ snapInc' = [snapInc EXCEPT ![timestamp[r]] = "absent"]
                     /\ snapFinal' = snapFinal \cup {timestamp[r]}
                ELSE UNCHANGED <<snapInc, snapFinal>>
          /\ IF finalizeBackup(dryRun[r], renameOk) = ""
                THEN Advance(r, "Finalized") /\ UNCHANGED lock
                ELSE ReturnErr(r, finalizeBackup(dryRun[r], renameOk))
    /\ UNCHANGED <<runVars, diskUsage, linkDest, destDir, latest, pruneLog>>

\* Backup.updateLatestLink: os.Remove of the symlink, then os.Symlink of the
\* timestamp; the error of os.Symlink is returned by Backup.Run.
updateLatestLinkErr(symlinkOk) == IF symlinkOk THEN "" ELSE "PublishError"

UpdateLatestLink(r) ==
    /\ pc[r] = "Finalized"
    /\ \E symlinkOk \in BOOLEAN :
          /\ latest' = IF symlinkOk THEN timestamp[r] ELSE NoName
          /\ IF updateLatestLinkErr(symlinkOk) = ""
                THEN Advance(r, "Published") /\ UNCHANGED lock
                ELSE ReturnErr(r, updateLatestLinkErr(symlinkOk))
    /\ UNCHANGED <<runVars, diskUsage, linkDest, destDir, snapInc, snapFinal, pruneLog>>

\* The removal loop leaving at the first os.RemoveAll that fails.
removeOldestUntilFailure(backups, toRemove, failed) ==
    {backups[i] : i \in {k \in 1..toRemove : \A j \in 1..k : backups[j] \notin failed}}

\* The removal loop of cleanupOldBackups over the sorted backups: the names
\* it removes when os.RemoveAll fails on those of failed.
removeOldest(backups, toRemove, failed) ==
    {backups[i] : i \in {k \in 1..toRemove : backups[k] \notin failed}}

\* The directories a cleanupOldBackups removes from the finalized ones.
removedBackups(final, keep, failed) ==
    LET backups == backupCandidates(final)
    IN  IF keep <= 0 \/ Len(backups) <= keep THEN {}
        ELSE removeOldest(sortBackups(backups), toRemoveCount(Len(backups), keep), failed)

\* Backup.cleanupOldBackups: os.RemoveAll on each of the oldest candidates;
\* a removal that fails is logged and the loop goes on.
CleanupOldBackups(r) ==
    /\ pc[r] = "Published"
    /\ LET victims == pruneVictims(snapFinal, config.Keep)
       IN  \E failed \in SUBSET victims :
             /\ snapFinal' = snapFinal \ removedBackups(snapFinal, config.Keep, failed)
             /\ pruneLog' = [removing |-> victims, failed |-> failed]
    /\ Advance(r, "Pruned")
    /\ UNCHANGED <<runVars, diskUsage, linkDest, lock, destDir, snapInc, latest>>

\* Backup.Run returns nil: the deferred removeLock runs and main exits 0.
RunReturn(r) ==
    /\ pc[r] = "Pruned"
    /\ pc' = [pc EXCEPT ![r] = "Completed"]
    /\ lock' = deferredRemoveLock(pc[r], lock)
    /\ exits' = (exits /\ ~dryRun[r])
    /\ UNCHANGED <<runVars, sig, err, diskUsage, linkDest, fsVars>>

\* The signal goroutine receives SIGINT or SIGTERM and Backup.cleanup runs up
\* to removeLock; the main goroutine keeps running.
Signal(r) ==
    /\ Alive(r)
    /\ sig[r] = "none"
    /\ sig' = [sig EXCEPT ![r] = IF pc[r] \in LockedSteps THEN "held" ELSE "early"]
    /\ lock' = removeLock(lock)
    /\ UNCHANGED <<runVars, pc, err, diskUsage, linkDest, fsVars, exits>>

\* Backup.cleanup calls os.Exit(1): the process ends wherever the main
\* goroutine is.
CleanupExit(r) ==
    /\ Alive(r)
    /\ sig[r] # "none"
    /\ pc' = [pc EXCEPT ![r] = "Interrupted"]
    /\ exits' = FALSE
    /\ UNCHANGED <<runVars, sig, err, diskUsage, linkDest, lock, fsVars>>

\* One step of the run in slot r.
Step(r) ==
        \/ ValidatePaths(r)
        \/ CheckDiskSpace(r)
        \/ CreateLock(r)
        \/ SetupLogging(r)
        \/ FindRsync(r)
        \/ RunRsyncStart(r)
        \/ RsyncWrites(r)
        \/ RunRsyncWait(r)
        \/ VerifyBackup(r)
        \/ FinalizeBackup(r)
        \/ UpdateLatestLink(r)
        \/ CleanupOldBackups(r)
        \/ RunReturn(r)
        \/ Signal(r)
        \/ CleanupExit(r)

\* The operator (or cron) starts a run after the previous one has ended.
Launch(r) ==
    /\ \A q \in Runs : ~Alive(q)
    /\ r = 1
    /\ NewBackup(r)

Next == \E r \in Runs : Launch(r) \/ Step(r)

Spec == Init /\ [][Next]_vars

\* One step of the main goroutine of the run in slot r.
RunStep(r) ==
        \/ ValidatePaths(r)
        \/ CheckDiskSpace(r)
        \/ CreateLock(r)
        \/ SetupLogging(r)
        \/ FindRsync(r)
        \/ RunRsyncStart(r)
        \/ RunRsyncWait(r)
        \/ VerifyBackup(r)
        \/ FinalizeBackup(r)
        \/ UpdateLatestLink(r)
        \/ CleanupOldBackups(r)
        \/ RunReturn(r)

\* Successive runs started in one timezone: the zone decides the names and
\* their order, and no step waits on either.
LaunchFair(r) ==
    /\ Launch(r)
    /\ timestamp'[r][1] = 1

NextFair == \E r \in Runs : LaunchFair(r) \/ Step(r)

\* These runs when a goroutine that can run does run: the main goroutine
\* takes its next step (the child process exits, so cmd.Wait returns), and
\* the signal goroutine, once it has received a signal, reaches os.Exit.
SpecFair ==
    /\ Init
    /\ [][NextFair]_vars
    /\ \A r \in Runs : WF_vars(RunStep(r)) /\ WF_vars(CleanupExit(r))

\* Runs are started while others are alive, each in the lowest free slot;
\* these runs are started without -dry-run and in one timezone.
LaunchConcurrent(r) ==
    /\ \A q \in 1..(r - 1) : Alive(q)
    /\ NewBackup(r)
    /\ ~dryRun'[r]
    /\ timestamp'[r][1] = 1

NextConcurrent == \E r \in Runs : LaunchConcurrent(r) \/ Step(r)

SpecConcurrent == Init /\ [][NextConcurrent]_vars

\* The runs of Spec with any configuration document at the -config path, or
\* none.
InitAnyConfig ==
    /\ InitState(AnyConfigFiles)
    /\ input = NoCall /\ output = NoCall /\ capture = NoCapture /\ logs = NoLogs

SpecAnyConfig == InitAnyConfig /\ [][Next]_vars

\* ------------------------------------------------------- argument assembly
\* What a function called on its own leaves alone.
lifecycleVars == <<configFile, config, pc, sig, dryRun, timestamp, err, diskUsage, clock,
                   lock, destDir, snapInc, snapFinal, latest, pruneLog, linkDest, exits>>

\* An argument is the sequence of the pieces it is concatenated from: a
\* literal, or a literal followed by the characters of a path.
RsyncBaseArgs == << <<"-a">>, <<"-U">>, <<"--numeric-ids">>, <<"-H">>, <<"-A">>,
                    <<"--partial">>, <<"--itemize-changes">>, <<"--delete">>,
                    <<"--delete-excluded">>, <<"--stats">> >>
RsyncMacOSArgs == << <<"-E">>, <<"--fileflags">> >>
RsyncSSHArgs == << <<"-z">>, <<"--compress-level=6">>, <<"-e">>,
                   <<"ssh -o StrictHostKeyChecking=no -o UserKnownHostsFile=/dev/null">> >>

\* filepath.Join of a directory and a name.
Join(dir, name) == dir \o <<"/">> \o name

\* versionNum below which isOldRsync reports an old rsync: 3.2.0.
OldRsyncLimit == 30200

\* Backup.isOldRsync on the version getRsyncVersion returns: the three numbers
\* of the first dotted triple in the output, or the empty string (no
\* component) when the output has none.
isOldRsync(version) ==
    IF Len(version) < 3 THEN TRUE
    ELSE version[1] * 10000 + version[2] * 100 + version[3] < OldRsyncLimit

\* What getLastBackup returns when the pointer cannot be read.
NoneBackup == <<"(none)">>

\* The snapshot names of the calls: the pointer's target and b.timestamp.
PriorName == <<"T", "1">>
OwnName == <<"T", "2">>

\* Paths with one of the two marks of a remote path only.
AtPath == <<"/", "a", "@", "b">>
ColonPath == <<"/", "c", ":", "d">>
ExcludePath == <<"/", "x">>

\* The versions the --version probe reports: none in the output, releases
\* of rsync before and from 3.2.0, and triples before 3.2.0 with a patch or a
\* minor number of three digits.
Versions == {<<>>, <<2, 6, 9>>, <<3, 1, 3>>, <<3, 2, 0>>, <<3, 4, 1>>,
             <<3, 1, 100>>, <<2, 200, 0>>}

\* The inputs of the argument assembly of runRsync: the Config fields it
\* reads, the result of the version probe, runtime.GOOS, the last backup and
\* whether os.Stat finds it, and whether os.Stat finds the exclude list (it
\* finds no file for the empty path).
RunRsyncInputs ==
    {in \in [call : {"runRsync"},
             Source : {LocalSource, RemoteSource, AtPath},
             Destination : {LocalDestination, RemoteDestination, ColonPath},
             ShowProgress : BOOLEAN,
             ExcludeList : {EmptyPath, ExcludePath},
             DryRun : BOOLEAN,
             versionErr : BOOLEAN,
             version : Versions,
             goos : {"darwin", "linux"},
             lastBackup : {NoneBackup, PriorName},
             lastBackupStat : BOOLEAN,
             excludeStat : BOOLEAN] :
        /\ in.excludeStat => in.ExcludeList # EmptyPath
        /\ in.versionErr => in.version = <<>>
        /\ in.lastBackupStat => in.lastBackup # NoneBackup}

\* The assembly with the progress flag appended before the SSH arguments.
runRsyncArgsProgressFirst(in) ==
    LET base == RsyncBaseArgs
        progress == IF in.ShowProgress THEN Append(base, <<"--progress">>) ELSE base
        ssh == IF isSSHPath(in.Source) \/ isSSHPath(in.Destination)
                  THEN progress \o RsyncSSHArgs ELSE progress
        macos == IF ~in.versionErr /\ in.goos = "darwin" /\ ~isOldRsync(in.version)
                    THEN ssh \o RsyncMacOSArgs ELSE ssh
        linked == IF in.lastBackup # NoneBackup /\ in.lastBackupStat
                     THEN Append(macos, <<"--link-dest=">>
                                          \o Join(in.Destination, in.lastBackup))
                     ELSE macos
        excluded == IF in.excludeStat
                       THEN Append(linked, <<"--exclude-from=">> \o in.ExcludeList)
                       ELSE linked
        dry == IF in.DryRun THEN Append(excluded, <<"--dry-run">>) ELSE excluded
    IN  dry \o << in.Source \o <<"/">>,
                  Join(in.Destination, OwnName \o <<"_INCOMPLETE">>) >>

\* The argument vector runRsync hands to exec.Command: a copy of
\* RsyncBaseArgs, then each append of runRsync in its order.
runRsyncArgs(in) ==
    LET base == RsyncBaseArgs
        ssh == IF isSSHPath(in.Source) \/ isSSHPath(in.Destination)
                  THEN base \o RsyncSSHArgs ELSE base
        progress == IF in.ShowProgress THEN Append(ssh, <<"--progress">>) ELSE ssh
        macos == IF ~in.versionErr /\ in.goos = "darwin" /\ ~isOldRsync(in.version)
                    THEN progress \o RsyncMacOSArgs ELSE progress
        linked == IF in.lastBackup # NoneBackup /\ in.lastBackupStat
                     THEN Append(macos, <<"--link-dest=">>
                                          \o Join(in.Destination, in.lastBackup))
                     ELSE macos
        excluded == IF in.excludeStat
                       THEN Append(linked, <<"--exclude-from=">> \o in.ExcludeList)
                       ELSE linked
        dry == IF in.DryRun THEN Append(excluded, <<"--dry-run">>) ELSE excluded
    IN  dry \o << in.Source \o <<"/">>,
                  Join(in.Destination, OwnName \o <<"_INCOMPLETE">>) >>

\* runRsync assembles the argument vector for one input.
InitArgs ==
    /\ InitState({NoFile})
    /\ lock = NoRun
    /\ input \in RunRsyncInputs
    /\ output = NoCall
    /\ capture = NoCapture /\ logs = NoLogs

BuildArgs ==
    /\ input.call = "runRsync"
    /\ output = NoCall
    /\ output' = runRsyncArgs(input)
    /\ UNCHANGED <<lifecycleVars, input, capture, logs>>

NextArgs == BuildArgs

SpecArgs == InitArgs /\ [][NextArgs]_vars

\* ------------------------------------------------------- binary resolution
\* The installation paths findRsync probes, in its order; the last is the
\* system path.
RsyncPaths == << <<"/opt/homebrew/bin/rsync">>, <<"/usr/local/bin/rsync">>,
                 <<"/usr/bin/rsync">> >>
SystemRsync == RsyncPaths[3]
NoBin == <<>>

\* The inputs of findRsync: the ForceSystemRsync field, the paths os.Stat
\* finds, and the result of the version probe on the selected binary.
FindRsyncInputs ==
    {in \in [call : {"findRsync"},
             ForceSystemRsync : BOOLEAN,
             stat : SUBSET (1..Len(RsyncPaths)),
             versionErr : BOOLEAN,
             version : Versions] :
        in.versionErr => in.version = <<>>}

\* The first of the paths that os.Stat finds, the empty string if none.
firstFound(stat) ==
    IF stat = {} THEN NoBin
    ELSE RsyncPaths[CHOOSE i \in stat : \A j \in stat : i <= j]

\* Backup.findRsync: the RsyncBin it stores and the error it returns.
findRsync(in) ==
    IF in.ForceSystemRsync THEN [RsyncBin |-> SystemRsync, err |-> "none"]
    ELSE LET bin == firstFound(in.stat)
         IN  IF bin = NoBin THEN [RsyncBin |-> bin, err |-> "BinaryNotFound"]
             ELSE IF bin = SystemRsync /\ ~in.ForceSystemRsync
                       /\ ~in.versionErr /\ isOldRsync(in.version)
                     THEN [RsyncBin |-> bin, err |-> "IncompatibleBinary"]
                     ELSE [RsyncBin |-> bin, err |-> "none"]

\* findRsync resolves the binary for one input.
InitResolve ==
    /\ InitState({NoFile})
    /\ lock = NoRun
    /\ input \in FindRsyncInputs
    /\ output = NoCall
    /\ capture = NoCapture /\ logs = NoLogs

ResolveBinary ==
    /\ input.call = "findRsync"
    /\ output = NoCall
    /\ output' = findRsync(input)
    /\ UNCHANGED <<lifecycleVars, input, capture, logs>>

NextResolve == ResolveBinary

SpecResolve == InitResolve /\ [][NextResolve]_vars

\* ----------------------------------------------------- transfer statistics
\* Number of phrases in the captured output of the child.
MaxPhrases == 2

\* float64 divisor of parseTransferredGB: 1024 * 1024 * 1024.
BytesPerGB == 1073741824

Digits == <<"0", "1", "2", "3", "4", "5", "6", "7", "8", "9">>
DigitValue(ch) == (CHOOSE d \in DOMAIN Digits : Digits[d] = ch) - 1

\* The class [0-9,] of the patterns.
IsCountChar(ch) == ch = "," \/ \E d \in DOMAIN Digits : Digits[d] = ch

\* The three patterns in the order of the slice: the literal before the
\* group ([0-9,]+) and the literal after it.
Patterns == << [pre |-> "Total transferred file size: ", post |-> " bytes"],
               [pre |-> "sent ", post |-> " bytes"],
               [pre |-> "total size is ", post |-> ""] >>

\* The character sequences that stand where a count does in the output.
GBCount == <<"1", ",", "0", "7", "3", ",", "7", "4", "1", ",", "8", "2", "4">>
SmallCount == <<"5", "1", "2">>
CommaOnly == <<",">>
NoCount == <<"x">>

\* The captured output is a sequence of phrases on separate lines: a
\* literal, the characters after it, and the literal after those.
Phrases == [pre : {Patterns[k].pre : k \in DOMAIN Patterns} \cup {"speedup is "},
            num : {GBCount, SmallCount, CommaOnly, NoCount},
            post : {" bytes", ""}]

RECURSIVE SeqsUpTo(_, _)
SeqsUpTo(S, n) ==
    IF n = 0 THEN {<<>>}
    ELSE SeqsUpTo(S, n - 1)
           \cup {Append(t, x) : t \in {u \in SeqsUpTo(S, n - 1) : Len(u) = n - 1}, x \in S}

StatsInputs == [call : {"parseTransferredGB"}, statsOutput : SeqsUpTo(Phrases, MaxPhrases)]

\* The pattern matches at the phrase: its first literal, one or more
\* characters of [0-9,], its second literal.
MatchesAt(pat, phrase) ==
    /\ phrase.pre = pat.pre
    /\ phrase.num # <<>>
    /\ \A i \in DOMAIN phrase.num : IsCountChar(phrase.num[i])
    /\ pat.post = "" \/ phrase.post = pat.post

\* regexp.FindStringSubmatch: the leftmost match, as << group 1 >>; no
\* element when nothing matches.
FindStringSubmatch(pat, text) ==
    IF \E i \in DOMAIN text : MatchesAt(pat, text[i])
       THEN LET i == CHOOSE j \in DOMAIN text :
                        /\ MatchesAt(pat, text[j])
                        /\ \A k \in 1..(j - 1) : ~MatchesAt(pat, text[k])
            IN  << text[i].num >>
       ELSE <<>>

\* strings.ReplaceAll(s, ",", "").
RECURSIVE RemoveCommas(_)
RemoveCommas(str) ==
    IF str = <<>> THEN <<>>
    ELSE IF Head(str) = "," THEN RemoveCommas(Tail(str))
    ELSE <<Head(str)>> \o RemoveCommas(Tail(str))

\* strconv.ParseInt(s, 10, 64) on digits: an error for the empty string.
RECURSIVE DecimalValue(_)
DecimalValue(str) ==
    IF str = <<>> THEN 0
    ELSE DecimalValue(SubSeq(str, 1, Len(str) - 1)) * 10 + DigitValue(str[Len(str)])

ParseInt(str) ==
    IF str = <<>> THEN [ok |-> FALSE, value |-> 0]
    ELSE [ok |-> TRUE, value |-> DecimalValue(str)]

\* float64(bytes) / (1024 * 1024 * 1024), as the whole gigabytes and the
\* bytes over them.
GB(bytes) == [whole |-> bytes \div BytesPerGB, rest |-> bytes % BytesPerGB]

\* The loop returning 0 at a match that does not parse.
RECURSIVE parseFromFirstMatchOnly(_, _)
parseFromFirstMatchOnly(text, k) ==
    IF k > Len(Patterns) THEN GB(0)
    ELSE LET matches == FindStringSubmatch(Patterns[k], text)
         IN  IF Len(matches) > 0
                THEN IF ParseInt(RemoveCommas(matches[1])).ok
                        THEN GB(ParseInt(RemoveCommas(matches[1])).value)
                        ELSE GB(0)
                ELSE parseFromFirstMatchOnly(text, k + 1)

\* The loop of parseTransferredGB from the k-th pattern on.
RECURSIVE parseFrom(_, _)
parseFrom(text, k) ==
    IF k > Len(Patterns) THEN GB(0)
    ELSE LET matches == FindStringSubmatch(Patterns[k], text)
         IN  IF Len(matches) > 0 /\ ParseInt(RemoveCommas(matches[1])).ok
                THEN GB(ParseInt(RemoveCommas(matches[1])).value)
                ELSE parseFrom(text, k + 1)

\* Backup.parseTransferredGB.
parseTransferredGB(statsOutput) == parseFrom(statsOutput, 1)

InitStats ==
    /\ InitState({NoFile})
    /\ lock = NoRun
    /\ input \in StatsInputs
    /\ output = NoCall
    /\ capture = NoCapture /\ logs = NoLogs

ParseStats ==
    /\ input.call = "parseTransferredGB"
    /\ output = NoCall
    /\ output' = parseTransferredGB(input.statsOutput)
    /\ UNCHANGED <<lifecycleVars, input, capture, logs>>

NextStats == ParseStats

SpecStats == InitStats /\ [][NextStats]_vars

\* ---------------------------------------------------------- output capture
\* The most chunks the child writes to one of its two streams.
MaxChunks == 2

Streams == {"stdout", "stderr"}

\* The first n chunks the child writes to a stream.
Chunks(s, n) == [i \in 1..n |-> <<s, i>>]

\* The state after cmd.Start: the child runs and has written nothing, each
\* io.Copy goroutine is about to read its pipe, and the main goroutine is
\* about to call cmd.Wait.  For a stream s: data[s] is what the child writes
\* in all, sent[s] the chunks it has written to the pipe, got[s] the chunks
\* io.Copy has read, buf[s] the chunks it has written to the strings.Builder,
\* task[s] where the goroutine is.  closed: cmd.Wait has closed the read ends.
Started(nOut, nErr) ==
    [data |-> [s \in Streams |->
                 Chunks(s, IF s = "stdout" THEN nOut ELSE nErr)],
     sent |-> [s \in Streams |-> 0],
     got |-> [s \in Streams |-> 0],
     buf |-> [s \in Streams |-> 0],
     task |-> [s \in Streams |-> "copying"],
     child |-> "running",
     closed |-> FALSE,
     main |-> "waiting",
     scanned |-> <<>>]

InitDrain ==
    /\ InitState({NoFile})
    /\ lock = NoRun
    /\ input = NoCall /\ output = NoCall /\ logs = NoLogs
    /\ \E nOut \in 0..MaxChunks : \E nErr \in 0..MaxChunks :
          capture = Started(nOut, nErr)

\* The child writes its next chunk to a stream.
ChildWrite(s) ==
    /\ capture.child = "running"
    /\ capture.sent[s] < Len(capture.data[s])
    /\ capture' = [capture EXCEPT !.sent[s] = @ + 1]
    /\ UNCHANGED <<lifecycleVars, input, output, logs>>

\* The child exits with a status, which closes the write ends of its pipes.
ChildExit ==
    /\ capture.child = "running"
    /\ \A s \in Streams : capture.sent[s] = Len(capture.data[s])
    /\ \E status \in {"exit 0", "exit 1"} : capture' = [capture EXCEPT !.child = status]
    /\ UNCHANGED <<lifecycleVars, input, output, logs>>

\* io.Copy: a Read of the pipe returns the next chunk.
CopyRead(s) ==
    /\ capture.task[s] = "copying"
    /\ ~capture.closed
    /\ capture.got[s] = capture.buf[s]
    /\ capture.got[s] < capture.sent[s]
    /\ capture' = [capture EXCEPT !.got[s] = @ + 1]
    /\ UNCHANGED <<lifecycleVars, input, output, logs>>

\* io.Copy: the chunk read is written to the console and the strings.Builder.
CopyWrite(s) ==
    /\ capture.task[s] = "copying"
    /\ capture.got[s] > capture.buf[s]
    /\ capture' = [capture EXCEPT !.buf[s] = @ + 1]
    /\ UNCHANGED <<lifecycleVars, input, output, logs>>

\* io.Copy returns: a Read returns io.EOF, the pipe being empty and its
\* write end closed, or fails, cmd.Wait having closed the read end.
CopyReturn(s) ==
    /\ capture.task[s] = "copying"
    /\ capture.got[s] = capture.buf[s]
    /\ \/ /\ ~capture.closed
          /\ capture.child # "running"
          /\ capture.got[s] = capture.sent[s]
          /\ capture' = [capture EXCEPT !.task[s] = "eof"]
       \/ /\ capture.closed
          /\ capture' = [capture EXCEPT !.task[s] = "closed"]
    /\ UNCHANGED <<lifecycleVars, input, output, logs>>

\* cmd.Wait returns once the child has exited, closing the read ends of the
\* pipes; runRsync returns its error for a status other than 0.
Wait ==
    /\ capture.main = "waiting"
    /\ capture.child # "running"
    /\ capture' = [capture EXCEPT !.closed = TRUE,
                                  !.main = IF capture.child = "exit 0" THEN "waited"
                                           ELSE "returned"]
    /\ UNCHANGED <<lifecycleVars, input, output, logs>>

\* The text of the first n chunks.
Text(chunks, n) == SubSeq(chunks, 1, n)

\* stdoutBuf.String() + stderrBuf.String(), handed to parseTransferredGB.
Scan ==
    /\ capture.main = "waited"
    /\ capture' = [capture EXCEPT
                     !.main = "returned",
                     !.scanned = Text(capture.data["stdout"], capture.buf["stdout"])
                                   \o Text(capture.data["stderr"], capture.buf["stderr"])]
    /\ UNCHANGED <<lifecycleVars, input, output, logs>>

NextDrain ==
    \/ \E s \in Streams : ChildWrite(s) \/ CopyRead(s) \/ CopyWrite(s) \/ CopyReturn(s)
    \/ ChildExit
    \/ Wait
    \/ Scan

SpecDrain == InitDrain /\ [][NextDrain]_vars

\* ------------------------------------------------------------------ logging
\* The most lines a run appends through b.log after setupLogging.
MaxLogLines == 3

\* cleanupLog rewrites the log from RotateJobs lines with "Starting backup:"
\* on, keeping the last TailLines lines.
RotateJobs == 30
TailLines == 500

Marker == "Starting backup:"

\* The messages Backup.Run logs after setupLogging.
RunLines == {Marker, "Last backup:", "Backup completed successfully"}

\* The content of a file: prior lines written by earlier runs, markers of
\* which contain "Starting backup:", then the lines this run wrote.
Content(prior, markers) == [prior |-> prior, markers |-> markers, lines |-> <<>>]

\* The log file earlier runs left at the LogFile path (none after no run).
PriorLogs ==
    {<<>>} \cup {<<c>> : c \in {Content(0, 0), Content(20, 2),
                                Content(RotateJobs * 10 - 10, RotateJobs - 1),
                                Content(RotateJobs * 10, RotateJobs),
                                Content(RotateJobs * 20, RotateJobs * 2)}}

\* Before setupLogging: files[i] is the content of inode i, path the inode
\* the LogFile path names and fd the inode b.logFile is open on (0: none),
\* appended the lines b.log has written to b.logFile, at: where the run is.
NotSetUp(files) ==
    [files |-> files,
     path |-> Len(files),
     fd |-> 0,
     appended |-> <<>>,
     at |-> "start"]

InitLog ==
    /\ InitState({NoFile})
    /\ lock = NoRun
    /\ input = NoCall /\ output = NoCall /\ capture = NoCapture
    /\ \E files \in PriorLogs : logs = NotSetUp(files)

\* The lines of a file that contain "Starting backup:".
jobCount(c) == c.markers + Cardinality({i \in 1..Len(c.lines) : c.lines[i][1] = Marker})

Min(a, b) == IF a < b THEN a ELSE b

\* The output of tail -n 500: the last TailLines lines of a file (of the
\* prior lines kept, as many as can be are counted as markers).
tail(c) ==
    LET total == c.prior + Len(c.lines)
        drop == IF total > TailLines THEN total - TailLines ELSE 0
        dropPrior == Min(drop, c.prior)
    IN  [prior |-> c.prior - dropPrior,
         markers |-> Min(c.markers, c.prior - dropPrior),
         lines |-> SubSeq(c.lines, 1 + drop - dropPrior, Len(c.lines))]

\* A write of lines to the inode a handle is open on.
write(l, fd, lines) == [l EXCEPT !.files[fd].lines = @ \o lines]

\* Backup.log: the line goes to b.logFile when it is open.
log(l, message) ==
    IF l.fd = 0 THEN l
    ELSE LET line == <<message, Len(l.appended) + 1>>
         IN  [write(l, l.fd, <<line>>) EXCEPT !.appended = Append(@, line)]

\* os.WriteFile of LogFile.tmp and os.Rename of it to LogFile: the path names
\* a new inode, b.logFile stays open on the old one.
rename(l, kept) ==
    LET n == Len(l.files) + 1
    IN  [l EXCEPT !.files = Append(@, kept), !.path = n]

\* Backup.cleanupLog.
cleanupLog(l, tailOk) ==
    IF jobCount(l.files[l.path]) >= RotateJobs /\ tailOk
       THEN log(rename(l, tail(l.files[l.path])), "Log cleaned up")
       ELSE l

\* Backup.setupLogging: os.OpenFile with O_CREATE and O_APPEND, the
\* separator, cleanupLog.
setupLogging(l, tailOk) ==
    LET created == IF l.path = 0
                      THEN [l EXCEPT !.files = Append(@, Content(0, 0)),
                                     !.path = Len(l.files) + 1]
                      ELSE l
        opened == [created EXCEPT !.fd = created.path]
        separated == write(opened, opened.fd, << <<"", 0>>, <<"====", 0>> >>)
    IN  [cleanupLog(separated, tailOk) EXCEPT !.at = "running"]

OpenLog ==
    /\ logs.at = "start"
    /\ \E tailOk \in BOOLEAN : logs' = setupLogging(logs, tailOk)
    /\ UNCHANGED <<lifecycleVars, input, output, capture>>

AppendLine ==
    /\ logs.at = "running"
    /\ Len(logs.appended) < MaxLogLines
    /\ \E message \in RunLines : logs' = log(logs, message)
    /\ UNCHANGED <<lifecycleVars, input, output, capture>>

\* The run ends: the deferred b.logFile.Close().
CloseLog ==
    /\ logs.at = "running"
    /\ logs' = [logs EXCEPT !.fd = 0, !.at = "ended"]
    /\ UNCHANGED <<lifecycleVars, input, output, capture>>

NextLog == OpenLog \/ AppendLine \/ CloseLog

SpecLog == InitLog /\ [][NextLog]_vars

\* ------------------------------------------------------------------ claims
\* The run in slot r is between its lock acquisition and its lock release,
\* and its signal goroutine has not acted.
HoldsLock(r) == pc[r] \in LockedSteps /\ sig[r] = "none"

\* The main or the signal goroutine of the run in slot r takes the step.
ActsIn(r) == pc'[r] # pc[r] \/ sig'[r] # sig[r]

\* C1: among runs that share the lock path, with signals arriving at any
\* point, at most one run at a time is between its successful lock
\* acquisition and its lock release.
C1_MutualExclusion == Cardinality({r \in Runs : HoldsLock(r)}) <= 1

\* C2: releasing an unheld lock is a no-op: a step that removes an existing
\* lock directory is a step of the run that created it.
C2_ReleaseUnheldIsNoOp ==
    [][(lock # NoRun /\ lock' = NoRun)
         => \E r \in Runs : ActsIn(r) /\ RunId(r) = lock]_vars

\* C3: an acquisition attempt while the lock directory exists fails with
\* AlreadyRunning, the run ends Failed there, the lock directory and the
\* destination are as they were, and the run has made no snapshot and has
\* not touched the pointer.
C3_AlreadyRunningLeavesLock ==
    /\ [][\A r \in Runs :
            (pc[r] = "SpaceChecked" /\ pc'[r] \in {"Locked", "Failed"} /\ lock # NoRun)
              => /\ pc'[r] = "Failed"
                 /\ err'[r] = "AlreadyRunning"
                 /\ lock' = lock
                 /\ UNCHANGED fsVars]_vars
    /\ [][\A r \in Runs : pc[r] = "Failed" => (pc'[r] = "Failed" \/ clock' = clock + 1)]_vars
    /\ [](\A r \in Runs :
            (pc[r] = "Failed" /\ err[r] = "AlreadyRunning")
              => /\ snapInc[timestamp[r]] = "absent"
                 /\ timestamp[r] \notin snapFinal
                 /\ latest # timestamp[r]
                 /\ linkDest[r] = NoName
                 /\ lock # RunId(r))

C3_Witness ==
    \E r \in Runs : pc[r] = "Failed" /\ err[r] = "AlreadyRunning" /\ lock # NoRun

\* C4: a run that created the lock directory has removed it when its process
\* has exited: after Run returned nil, after Run returned the error of a
\* later step, and after a signal handled once the lock was acquired.
C4_LockRemovedOnExit ==
    \A r \in Runs :
        (pc[r] \in Terminal /\ ~(pc[r] = "Interrupted" /\ sig[r] = "early"))
          => lock # RunId(r)

C4_Witness ==
    \E r \in Runs :
        /\ pc[r] = "Interrupted"
        /\ sig[r] = "held"
        /\ snapInc[timestamp[r]] = "full"
        /\ lock = NoRun

\* C5: dry-run mode never creates, renames or deletes a snapshot directory
\* and never changes the latest pointer: no step of a dry run does.
C5_DryRunNoMutation ==
    [][\A r \in Runs :
          (Alive(r) /\ dryRun[r] /\ pc'[r] # pc[r])
            => UNCHANGED <<snapInc, snapFinal, latest>>]_vars

\* The k lexically greatest names of S.
GreatestK(S, k) == {n \in S : Cardinality({m \in S : LexLess(n, m)}) < k}

\* C6: a prune pass in which every deletion succeeds leaves exactly the Keep
\* lexically greatest finalized names, at most Keep of them; no prune pass
\* deletes an _INCOMPLETE directory or touches the latest pointer.
C6_PruneKeepsGreatestK ==
    [][\A r \in Runs :
          (pc[r] = "Published" /\ pc'[r] = "Pruned")
            => /\ snapInc' = snapInc
               /\ latest' = latest
               /\ snapFinal' \subseteq snapFinal
               /\ pruneLog'.failed = {}
                    => /\ snapFinal' = GreatestK(snapFinal, config.Keep)
                       /\ Cardinality(snapFinal') <= config.Keep]_vars

C6_Witness ==
    \E r \in Runs :
        /\ pc[r] = "Pruned"
        /\ pruneLog.removing # {}
        /\ pruneLog.failed = {}
        /\ Cardinality(snapFinal) = config.Keep
        /\ \E n \in Names : snapInc[n] # "absent"

\* The finalized snapshot of the latest run among S.
MostRecent(S) == CHOOSE n \in S : \A m \in S : m[2] <= n[2]

\* C7: at the end of every run the latest pointer names the most recently
\* finalized snapshot still present, unless no finalized snapshot exists.
C7_PointerNamesMostRecent ==
    \A r \in Runs :
        (pc[r] \in Terminal /\ snapFinal # {}) => latest = MostRecent(snapFinal)

\* C8: when the df probe reports a usage at or above the threshold, the run
\* ends Failed with DiskThresholdExceeded at that step, before createLock:
\* the lock directory, the snapshot directories and the pointer are as they
\* were, and the run has created no lock and no snapshot directory.
C8_DiskThresholdAborts ==
    /\ [][\A r \in Runs :
            (pc[r] = "PathsChecked" /\ pc'[r] \in {"SpaceChecked", "Failed"}
               /\ diskUsage'[r] >= config.CleanupAtPercent)
              => /\ pc'[r] = "Failed"
                 /\ err'[r] = "DiskThresholdExceeded"
                 /\ lock' = lock
                 /\ UNCHANGED fsVars]_vars
    /\ [](\A r \in Runs :
            (pc[r] = "Failed" /\ err[r] = "DiskThresholdExceeded")
              => /\ lock # RunId(r)
                 /\ snapInc[timestamp[r]] = "absent"
                 /\ timestamp[r] \notin snapFinal
                 /\ latest # timestamp[r])

C8_Witness ==
    \E r \in Runs :
        /\ pc[r] = "Failed"
        /\ err[r] = "DiskThresholdExceeded"
        /\ diskUsage[r] = config.CleanupAtPercent

\* C9: a finalized snapshot directory appears only by the rename of a
\* non-empty _INCOMPLETE directory in the finalize step of the non-dry run
\* with that timestamp, after the tool exited 0 and verifyBackup passed; the
\* pointer changes only in the publish step; a run that failed in the
\* transfer or in the verification has no finalized snapshot and the pointer
\* does not name its timestamp.
C9_FinalizedOnlyAfterVerify ==
    /\ [][\A n \in Names :
            (n \notin snapFinal /\ n \in snapFinal')
              => \E r \in Runs :
                    /\ timestamp[r] = n
                    /\ ~dryRun[r]
                    /\ pc[r] = "Verified" /\ pc'[r] = "Finalized"
                    /\ snapInc[n] = "full" /\ snapInc'[n] = "absent"]_vars
    /\ [][latest' # latest
            => \E r \in Runs : pc[r] = "Finalized" /\ pc'[r] \in {"Published", "Failed"}]_vars
    /\ [](\A r \in Runs :
            (pc[r] = "Failed"
               /\ err[r] \in {"ProcessExecutionError", "SnapshotMissing", "SnapshotEmpty"})
              => timestamp[r] \notin snapFinal /\ latest # timestamp[r])

C9_Witness ==
    \E r \in Runs :
        /\ pc[r] = "Failed"
        /\ err[r] = "SnapshotEmpty"
        /\ snapInc[timestamp[r]] = "empty"
        /\ snapFinal # {}

\* C10: a failure to republish the latest pointer is a warning: from the
\* publish step the main goroutine goes on to the prune step with no error.
C10_PublishFailureIsWarning ==
    [][\A r \in Runs :
          (pc[r] = "Finalized" /\ pc'[r] \notin {"Finalized", "Interrupted"})
            => (pc'[r] = "Published" /\ err'[r] = "")]_vars

\* The steps of a run before its createLock has succeeded.
PreLockSteps == {"Validated", "PathsChecked", "SpaceChecked"}

\* C11: the lock directory is created before any mutating step: a step of a
\* run that has not yet acquired the lock creates, renames or deletes
\* nothing under the destination (the destination directory, the snapshot
\* directories, the pointer).
C11_LockBeforeMutation ==
    [][\A r \in Runs :
          (ActsIn(r) /\ pc[r] \in PreLockSteps)
            => UNCHANGED <<destDir, snapInc, snapFinal, latest>>]_vars

\* The positions of the main goroutine in the order of Backup.Run.
StepOrder == <<"Validated", "PathsChecked", "SpaceChecked", "Locked", "LoggingOpen",
               "BinaryResolved", "Transferring", "Transferred", "Verified",
               "Finalized", "Published", "Pruned", "Completed">>
Rank(step) == CHOOSE i \in DOMAIN StepOrder : StepOrder[i] = step

\* C12: the main goroutine of a run moves one step forward in the order of
\* Backup.Run or the run ends; a step that returns an error ends the run
\* Failed, and a process that has ended changes nothing any more; a
\* finalize step of a non-dry run either renames the _INCOMPLETE directory
\* or ends the run with FinalizeRenameError, the _INCOMPLETE directory, the
\* finalized snapshots and the pointer being as they were.
C12_StrictOrder ==
    /\ [][\A r \in Runs :
            pc'[r] # pc[r]
              => IF pc[r] \in Terminal \cup {"NotStarted"}
                    THEN clock' = clock + 1 /\ pc'[r] \in {"Validated", "Failed"}
                    ELSE \/ pc'[r] \in {"Failed", "Interrupted"}
                         \/ Rank(pc'[r]) = Rank(pc[r]) + 1]_vars
    /\ [](\A r \in Runs : err[r] # "" <=> pc[r] = "Failed")
    /\ [][(\A r \in Runs : ~Alive(r)) => UNCHANGED <<lock, fsVars>>]_vars
    /\ [][\A r \in Runs :
            (pc[r] = "Verified" /\ pc'[r] \in {"Finalized", "Failed"} /\ ~dryRun[r])
              => \/ /\ pc'[r] = "Finalized"
                    /\ snapInc[timestamp[r]] = "full"
                    /\ snapInc'[timestamp[r]] = "absent"
                    /\ timestamp[r] \in snapFinal'
                 \/ /\ pc'[r] = "Failed"
                    /\ err'[r] = "FinalizeRenameError"
                    /\ UNCHANGED <<snapInc, snapFinal, latest, pruneLog>>]_vars

C12_Witness ==
    \E r \in Runs :
        /\ pc[r] = "Failed"
        /\ err[r] = "FinalizeRenameError"
        /\ snapInc[timestamp[r]] = "full"
        /\ snapFinal # {}
        /\ latest # timestamp[r]

\* C13: when every process so far was a non-dry run that exited 0 and their
\* number n is at most Keep, the destination holds exactly n finalized
\* snapshots and no _INCOMPLETE directory, the pointer names the snapshot of
\* the last run, which is the newest, and the last run was given no
\* --link-dest when it was the first and the snapshot of the run before it
\* otherwise.
C13_SuccessiveRuns ==
    \A r \in Runs :
        (pc[r] = "Completed" /\ RunId(r) = clock /\ exits /\ clock <= config.Keep)
          => /\ Cardinality(snapFinal) = clock
             /\ \A n \in Names : snapInc[n] = "absent"
             /\ latest = timestamp[r]
             /\ latest \in snapFinal
             /\ \A m \in snapFinal : m[2] <= latest[2]
             /\ IF clock = 1
                   THEN linkDest[r] = NoName
                   ELSE /\ linkDest[r] \in snapFinal
                        /\ linkDest[r][2] = clock - 1

C13_Witness ==
    \E r \in Runs :
        /\ pc[r] = "Completed" /\ exits
        /\ clock = 2 /\ config.Keep = 2
        /\ linkDest[r] # NoName

\* C14: whenever runRsync gives --link-dest, the snapshot it names is a
\* finalized snapshot directory that exists at that moment and is the one the
\* pointer names; it is not the snapshot of the run itself.
C14_LinkDestExists ==
    [][\A r \in Runs :
          (pc[r] = "BinaryResolved" /\ pc'[r] = "Transferring" /\ linkDest'[r] # NoName)
            => /\ linkDest'[r] \in snapFinal
               /\ linkDest'[r] = latest
               /\ linkDest'[r] # timestamp[r]]_vars

C14_Witness ==
    \E r \in Runs :
        /\ pc[r] = "Transferring"
        /\ linkDest[r] # NoName
        /\ \E n \in Names : snapInc[n] # "absent" /\ n # timestamp[r]

\* C15: SSH transfers are supported: in a non-dry run whose source or
\* destination is remote, the path validation does not report a remote
\* source as missing, and once the external tool has exited 0 the main
\* goroutine goes on past the verification.
C15_RemoteTransferCompletes ==
    [][\A r \in Runs :
          (~dryRun[r] /\ (isSSHPath(config.Source) \/ isSSHPath(config.Destination)))
            => /\ (isSSHPath(config.Source) /\ pc[r] = "Validated" /\ pc'[r] = "Failed")
                    => err'[r] # "SourceMissing"
               /\ (pc[r] = "Transferred" /\ pc'[r] \notin {"Transferred", "Interrupted"})
                    => pc'[r] = "Verified"]_vars

\* The argument set when the condition holds, no argument otherwise.
ArgsIf(cond, args) == IF cond THEN args ELSE <<>>

InvalidFile(file) ==
    /\ file.present
    /\ LET doc == file.doc
       IN  \/ Unmarshal(doc).source = EmptyPath
           \/ Unmarshal(doc).destination = EmptyPath
           \/ "keep" \in DOMAIN doc /\ doc.keep < 1
           \/ /\ "cleanup_at_percent" \in DOMAIN doc
              /\ \/ doc.cleanup_at_percent < MinCleanupAtPercent
                 \/ doc.cleanup_at_percent > MaxCleanupAtPercent

\* C17: with such a configuration every run aborts with a configuration
\* error before any filesystem mutation: no destination directory, lock,
\* snapshot or pointer is created or changed.
C17_InvalidConfigAborts ==
    InvalidFile(configFile)
      => /\ \A r \in Runs :
               /\ pc[r] \in {"NotStarted", "Failed"}
               /\ pc[r] = "Failed" => err[r] \in {"ConfigLoadError", "ConfigInvalid"}
         /\ ~destDir
         /\ lock \in {NoRun, StaleLock}
         /\ snapFinal = {}
         /\ \A n \in Names : snapInc[n] = "absent"
         /\ latest = NoName

\* C19: once the configuration is loaded, an option the configuration file
\* does not give (the file is absent, or present without the key) has its
\* documented default: keep 30, cleanup_at_percent 95.
C19_DocumentedDefaults ==
    (clock > 0 /\ LoadConfig(configFile).err = "")
      => /\ (~configFile.present \/ "keep" \notin DOMAIN configFile.doc)
               => config.Keep = DefaultKeep
         /\ (~configFile.present \/ "cleanup_at_percent" \notin DOMAIN configFile.doc)
               => config.CleanupAtPercent = DefaultCleanupAtPercent

\* The k names of S that come first in lexical order.
Oldest(S, k) == {n \in S : Cardinality({m \in S : LexLess(m, n)}) < k}

\* C18: a prune pass goes on after a deletion that fails: all of the
\* count - Keep first candidates in the order of the sort are attempted,
\* those whose deletion does not fail are deleted, the step returns no error
\* and the run goes on to end Completed with exit code 0.
C18_PruneToleratesFailure ==
    /\ [][\A r \in Runs :
            (pc[r] = "Published" /\ pc'[r] \notin {"Published", "Interrupted"})
              => LET count == Cardinality(snapFinal)
                     cands == IF count > config.Keep
                                 THEN Oldest(snapFinal, count - config.Keep) ELSE {}
                 IN  /\ pc'[r] = "Pruned"
                     /\ err'[r] = ""
                     /\ pruneLog'.removing = cands
                     /\ pruneLog'.failed \subseteq cands
                     /\ snapFinal' = snapFinal \ (cands \ pruneLog'.failed)]_vars
    /\ [][\A r \in Runs :
            (pc[r] = "Pruned" /\ pc'[r] \notin {"Pruned", "Interrupted"})
              => pc'[r] = "Completed" /\ err'[r] = ""]_vars
    /\ [](\A r \in Runs : pc[r] = "Completed" => ExitCode(r) = 0)

C18_Witness ==
    \E r \in Runs :
        /\ pc[r] = "Completed"
        /\ pruneLog.failed # {}
        /\ pruneLog.removing \ pruneLog.failed # {}
        /\ pruneLog.failed \subseteq snapFinal
        /\ pruneLog.removing \cap snapFinal = pruneLog.failed

\* The count the leftmost phrase of the form of pattern k carries.
CountOf(text, k) ==
    LET i == CHOOSE j \in DOMAIN text :
                /\ MatchesAt(Patterns[k], text[j])
                /\ \A m \in 1..(j - 1) : ~MatchesAt(Patterns[k], text[m])
    IN  RemoveCommas(text[i].num)

\* The patterns that match somewhere in the text, and those of them whose
\* count has a digit.
Matching(text) == {k \in DOMAIN Patterns : \E i \in DOMAIN text : MatchesAt(Patterns[k], text[i])}
Countable(text) == {k \in Matching(text) : CountOf(text, k) # <<>>}

Least(S) == CHOOSE k \in S : \A m \in S : k <= m

\* C20 as stated: the first pattern that matches determines the byte count,
\* whatever the later patterns match; text matching none gives 0.
C20_FirstMatchWins ==
    output # NoCall /\ input.call = "parseTransferredGB"
      => LET text == input.statsOutput
         IN  IF Matching(text) = {} THEN output = GB(0)
             ELSE output = GB(DecimalValue(CountOf(text, Least(Matching(text)))))

\* C20 amended: the first pattern whose match carries a count that parses
\* (at least one digit after the commas are removed) determines the byte
\* count N, reported as N / 2^30; a match that does not parse is passed
\* over; when no pattern has such a match the figure is 0.
C20_FirstParsedMatchWins ==
    output # NoCall /\ input.call = "parseTransferredGB"
      => LET text == input.statsOutput
         IN  /\ output.whole * BytesPerGB + output.rest
                  = IF Countable(text) = {} THEN 0
                    ELSE DecimalValue(CountOf(text, Least(Countable(text))))
             /\ output.rest \in 0..(BytesPerGB - 1)
             /\ (Countable(text) # {} /\ text[1].num = GBCount
                   /\ MatchesAt(Patterns[Least(Countable(text))], text[1]))
                  => output = [whole |-> 1, rest |-> 0]

C20_Witness ==
    /\ output = GB(DecimalValue(SmallCount))
    /\ input.call = "parseTransferredGB"
    /\ Len(input.statsOutput) = 2
    /\ MatchesAt(Patterns[1], input.statsOutput[1])
    /\ input.statsOutput[1].num = CommaOnly
    /\ MatchesAt(Patterns[3], input.statsOutput[2])

\* C21: lexical order equals chronological order: of two finalized
\* snapshots, the one of the later run has the lexically greater name,
\* whatever timezone abbreviation was in effect at either run.
C21_LexicalIsChronological ==
    \A a \in snapFinal : \A b \in snapFinal : a[2] < b[2] => LexLess(a, b)

\* C22: the prune pass of a non-dry run that has finalized its snapshot and
\* pointed the latest pointer to it does not delete that snapshot.
C22_PruneKeepsOwnSnapshot ==
    [][\A r \in Runs :
          (pc[r] = "Published" /\ pc'[r] = "Pruned" /\ ~dryRun[r]
             /\ timestamp[r] \in snapFinal /\ latest = timestamp[r])
            => timestamp[r] \in snapFinal']_vars

\* The version is 3.2.0 or later, compared component by component.
AtLeast320(version) ==
    /\ Len(version) = 3
    /\ \/ version[1] > 3
       \/ version[1] = 3 /\ version[2] >= 2

\* C23: when the system path is selected, force is not set and the probe
\* reports a version, resolution fails with IncompatibleBinary exactly when
\* the version is below 3.2.0 compared component by component, or has no
\* three numbers; a version from 3.2.0 on is accepted.
C23_BelowMinimumFails ==
    (output # NoCall /\ input.call = "findRsync"
       /\ output.RsyncBin = SystemRsync /\ ~input.ForceSystemRsync
       /\ ~input.versionErr)
      => (output.err = "IncompatibleBinary" <=> ~AtLeast320(input.version))

\* C24: the text runRsync scans is all the child wrote to standard output
\* followed by all it wrote to standard error (both io.Copy goroutines
\* having copied their stream to its end).
C24_ScanSeesAllOutput ==
    [][(capture.main = "waited" /\ capture'.main = "returned")
         => capture'.scanned = capture.data["stdout"] \o capture.data["stderr"]]_vars

\* The line is in the file.
InFile(c, line) == \E i \in 1..Len(c.lines) : c.lines[i] = line

\* C25: when the run has ended, every line appended through b.log after the
\* log was opened is in the file at the LogFile path, also when cleanupLog
\* rewrote the log.
C25_LoggedLinesInLogFile ==
    logs # NoLogs /\ logs.at = "ended"
      => \A i \in 1..Len(logs.appended) :
             InFile(logs.files[logs.path], logs.appended[i])

\* C26: every run that has started reaches one of Completed, Failed and
\* Interrupted, and a run that has reached one of them takes no further
\* step: it stays there, with its error, and the next step in its slot is
\* the start of another process.
C26_RunsTerminate ==
    /\ \A r \in Runs : Alive(r) ~> pc[r] \in Terminal
    /\ [][\A r \in Runs :
             pc[r] \in Terminal
               => \/ pc'[r] = pc[r] /\ err'[r] = err[r] /\ sig'[r] = sig[r]
                  \/ clock' = clock + 1 /\ timestamp'[r] = <<timestamp'[r][1], clock'>>]_vars

C26_Witness ==
    \E r \in Runs :
       /\ pc[r] = "Interrupted" /\ sig[r] = "held"
       /\ RunId(r) > 1
       /\ snapFinal # {}

====
